---- MODULE Spec2Model ----
(***************************************************************************)
(* A model of scripts/generateMonsters.py: the paginated fetch of the      *)
(* monster data (get_monster_data), the per-record normalisation in main,  *)
(* the JSON save and the image download loop.                              *)
(*                                                                         *)
(* Python strings are sequences of one-character strings, so that split,   *)
(* rsplit, lower, replace, `in` and re.match are computed character by     *)
(* character.  JSON scalars carry their type, so that 0 and "0" differ.    *)
(***************************************************************************)
EXTENDS Integers, Sequences, FiniteSets, TLC

(***************************************************************************)
(* Bounds of the model.                                                    *)
(***************************************************************************)
MaxRequests == 3
MaxRecords == 2
MaxKeyLen == 2
MaxImgs == 2
MaxRuns == 2

(***************************************************************************)
(* Strings.                                                                *)
(***************************************************************************)
UpperChars == <<"A", "B", "C", "D", "E", "F", "G", "H", "I", "J", "K", "L", "M",
                "N", "O", "P", "Q", "R", "S", "T", "U", "V", "W", "X", "Y", "Z">>
LowerChars == <<"a", "b", "c", "d", "e", "f", "g", "h", "i", "j", "k", "l", "m",
                "n", "o", "p", "q", "r", "s", "t", "u", "v", "w", "x", "y", "z">>
Range(f) == {f[i] : i \in DOMAIN f}

\* str.lower on one character, then on a string (line 180).
LowerOf ==
    [c \in Range(UpperChars) |->
        LowerChars[CHOOSE i \in DOMAIN UpperChars : UpperChars[i] = c]]
LowerChar(c) == IF c \in DOMAIN LowerOf THEN LowerOf[c] ELSE c
str_lower(s) == [i \in 1..Len(s) |-> LowerChar(s[i])]

\* Does sub occur in s at position i?
OccursAt(s, sub, i) ==
    /\ i >= 1
    /\ i + Len(sub) - 1 <= Len(s)
    /\ \A j \in 1..Len(sub) : s[i + j - 1] = sub[j]

\* Python's `sub in s`.
Contains(s, sub) == \E i \in 1..(Len(s) + 1) : OccursAt(s, sub, i)

\* Index of the first and of the last occurrence of character c, 0 if none.
FirstIndex(s, c) ==
    IF \E i \in 1..Len(s) : s[i] = c
    THEN CHOOSE i \in 1..Len(s) : s[i] = c /\ \A j \in 1..(i - 1) : s[j] # c
    ELSE 0
LastIndex(s, c) ==
    IF \E i \in 1..Len(s) : s[i] = c
    THEN CHOOSE i \in 1..Len(s) : s[i] = c /\ \A j \in (i + 1)..Len(s) : s[j] # c
    ELSE 0

\* s.replace(old, '') for a non-empty old: occurrences removed left to right.
RECURSIVE str_remove(_, _)
str_remove(s, old) ==
    IF s = <<>> THEN <<>>
    ELSE IF OccursAt(s, old, 1)
         THEN str_remove(SubSeq(s, Len(old) + 1, Len(s)), old)
         ELSE <<s[1]>> \o str_remove(Tail(s), old)

\* The character class [A-z] of the regular expression on line 129: the
\* code points from "A" to "z", which hold six characters that are no letters
\* (the backslash and the backquote are written by name).
ClassAz ==
    Range(UpperChars) \cup Range(LowerChars)
        \cup {"[", "backslash", "]", "^", "_", "backquote"}

\* re.match("^([A-z]*):", k): a possibly empty run of [A-z], then a colon.
\* The colon is not in the class, so the run ends at the first colon.
re_match_namespace(k) ==
    LET c == FirstIndex(k, ":")
    IN  c > 0 /\ \A j \in 1..(c - 1) : k[j] \in ClassAz

\* version = k.split('#', 1)[1], '' on IndexError (lines 118-121).
key_version(k) ==
    LET h == FirstIndex(k, "#")
    IN  IF h = 0 THEN <<>> ELSE SubSeq(k, h + 1, Len(k))

\* name = k.rsplit('#', 1)[0] or '' (line 141).
key_name(k) ==
    LET h == LastIndex(k, "#")
    IN  IF h = 0 THEN k ELSE SubSeq(k, 1, h - 1)

str_Challenge_Mode == <<"C", "h", "a", "l", "l", "e", "n", "g", "e", " ", "M", "o", "d", "e">>
str_historical == <<"(", "h", "i", "s", "t", "o", "r", "i", "c", "a", "l", ")">>
str_pvm_arena == <<"(", "p", "v", "m", " ", "a", "r", "e", "n", "a", ")">>
str_deadman == <<"(", "d", "e", "a", "d", "m", "a", "n", ":", " ", "a", "p", "o", "c", "a", "l", "y", "p", "s", "e", ")">>
str_Vardorvis == <<"V", "a", "r", "d", "o", "r", "v", "i", "s">>
str_Post_Quest == <<"P", "o", "s", "t", "-", "Q", "u", "e", "s", "t">>
str_Awakened == <<"A", "w", "a", "k", "e", "n", "e", "d">>
str_Quest == <<"Q", "u", "e", "s", "t">>
str_File == <<"F", "i", "l", "e", ":">>
str_Category == <<"C", "a", "t", "e", "g", "o", "r", "y", ":">>
str_scenery == <<"N", "o", "n", "-", "i", "n", "t", "e", "r", "a", "c", "t", "i", "v", "e", " ", "s", "c", "e", "n", "e", "r", "y">>
str_discontinued == <<"D", "i", "s", "c", "o", "n", "t", "i", "n", "u", "e", "d", " ", "c", "o", "n", "t", "e", "n", "t">>

(***************************************************************************)
(* JSON scalars, with Python's truthiness and equality with 0.             *)
(***************************************************************************)
JInt(n) == [type |-> "int", n |-> n, s |-> <<>>]
JStr(s) == [type |-> "str", n |-> 0, s |-> s]
None == [type |-> "none", n |-> 0, s |-> <<>>]

Truthy(x) ==
    CASE x.type = "int" -> x.n # 0
      [] x.type = "str" -> x.s # <<>>
      [] OTHER -> FALSE

\* `x or 0`
or_0(x) == IF Truthy(x) THEN x ELSE JInt(0)

\* `x == 0`: a string never equals a number.
eq_0(x) == x.type = "int" /\ x.n = 0

\* get_printout_value (lines 86-91)
get_printout_value(prop) == IF prop = <<>> THEN None ELSE prop[1]

(***************************************************************************)
(* The per-record normalisation of main (lines 107-202).                   *)
(***************************************************************************)
\* The printouts the loop body reads after the category test, in the order
\* of the dict display on lines 139-171.
MonsterPrintouts ==
    {"NPC ID", "Image", "Combat level", "Attack speed", "Size",
     "Attack level", "Defence level", "Hitpoints", "Magic level",
     "Ranged level", "Strength level",
     "Attack bonus", "Magic Damage bonus", "Magic attack bonus",
     "Range attack bonus", "Ranged Strength bonus", "Strength bonus",
     "Crush defence bonus", "Magic defence bonus", "Range defence bonus",
     "Slash defence bonus", "Stab defence bonus", "Monster attribute"}

\* has_category (lines 94-95): the first entry whose fulltext is
\* "Category:<category>".  c['fulltext'] raises KeyError on an entry without
\* that field, when the scan reaches it.
RECURSIVE has_category_from(_, _, _)
has_category_from(category_array, category, i) ==
    IF i > Len(category_array) THEN "none"
    ELSE IF "fulltext" \notin DOMAIN category_array[i] THEN "raise"
    ELSE IF category_array[i].fulltext = str_Category \o category THEN "found"
    ELSE has_category_from(category_array, category, i + 1)
has_category(category_array, category) ==
    has_category_from(category_array, category, 1)

\* The test of lines 133-136: `or` evaluates the second call only when the
\* first returned None.
category_test(po) ==
    LET c1 == has_category(po["Category"], str_scenery)
    IN  IF c1 # "none" THEN c1
        ELSE has_category(po["Category"], str_discontinued)

\* 'image' (line 143)
monster_image(po) ==
    IF po["Image"] = <<>> THEN <<>>
    ELSE str_remove(po["Image"][1].fulltext, str_File)

\* The dict display of lines 139-171.
build_monster(k, version, po) ==
    [id |-> get_printout_value(po["NPC ID"]),
     name |-> key_name(k),
     version |-> version,
     image |-> monster_image(po),
     level |-> or_0(get_printout_value(po["Combat level"])),
     speed |-> or_0(get_printout_value(po["Attack speed"])),
     size |-> or_0(get_printout_value(po["Size"])),
     skills |-> <<or_0(get_printout_value(po["Attack level"])),
                  or_0(get_printout_value(po["Defence level"])),
                  or_0(get_printout_value(po["Hitpoints"])),
                  or_0(get_printout_value(po["Magic level"])),
                  or_0(get_printout_value(po["Ranged level"])),
                  or_0(get_printout_value(po["Strength level"]))>>,
     offensive |-> <<or_0(get_printout_value(po["Attack bonus"])),
                     or_0(get_printout_value(po["Magic Damage bonus"])),
                     or_0(get_printout_value(po["Magic attack bonus"])),
                     or_0(get_printout_value(po["Range attack bonus"])),
                     or_0(get_printout_value(po["Ranged Strength bonus"])),
                     or_0(get_printout_value(po["Strength bonus"]))>>,
     defensive |-> <<or_0(get_printout_value(po["Crush defence bonus"])),
                     or_0(get_printout_value(po["Magic defence bonus"])),
                     or_0(get_printout_value(po["Range defence bonus"])),
                     or_0(get_printout_value(po["Slash defence bonus"])),
                     or_0(get_printout_value(po["Stab defence bonus"]))>>,
     attributes |-> po["Monster attribute"]]

\* The prune test of lines 174-185.  skills[2] of the code is the third
\* element, hitpoints.
prune(monster) ==
    LET lower_name == str_lower(monster.name)
    IN  \/ eq_0(monster.skills[3])
        \/ monster.id = None
        \/ Contains(lower_name, str_historical)
        \/ Contains(lower_name, str_pvm_arena)
        \/ Contains(lower_name, str_deadman)

\* The override written to the wrong places: the two constants exchanged.
vardorvis_override_swapped(monster) ==
    IF monster.name = str_Vardorvis
    THEN CASE monster.version = str_Post_Quest ->
                [monster EXCEPT !.skills[2] = JInt(270), !.skills[6] = JInt(215)]
           [] monster.version = str_Awakened ->
                [monster EXCEPT !.skills[2] = JInt(391), !.skills[6] = JInt(268)]
           [] monster.version = str_Quest ->
                [monster EXCEPT !.skills[2] = JInt(210), !.skills[6] = JInt(180)]
           [] OTHER -> monster
    ELSE monster

\* The override of lines 189-198.  skills[1] and skills[5] of the code are
\* the second and the sixth element, defence and strength.
vardorvis_override(monster) ==
    IF monster.name = str_Vardorvis
    THEN CASE monster.version = str_Post_Quest ->
                [monster EXCEPT !.skills[2] = JInt(215), !.skills[6] = JInt(270)]
           [] monster.version = str_Awakened ->
                [monster EXCEPT !.skills[2] = JInt(268), !.skills[6] = JInt(391)]
           [] monster.version = str_Quest ->
                [monster EXCEPT !.skills[2] = JInt(180), !.skills[6] = JInt(210)]
           [] OTHER -> monster
    ELSE monster

\* What one pass of the loop body does with the item (k, v): "keep" (line
\* 200 is reached), "raise" (an exception leaves the loop and main), or the
\* `continue` that skips the record.
record_outcome(k, v) ==
    IF "printouts" \notin DOMAIN v THEN "skip_printouts"
    ELSE LET po == v.printouts
             version == key_version(k)
             excluded == category_test(po)
         IN  IF Contains(version, str_Challenge_Mode) THEN "skip_challenge_mode"
             ELSE IF re_match_namespace(k) THEN "skip_namespace"
             ELSE IF "Category" \notin DOMAIN po THEN "raise"
             ELSE IF excluded = "raise" THEN "raise"
             ELSE IF excluded = "found" THEN "skip_category"
             ELSE IF ~(MonsterPrintouts \subseteq DOMAIN po) THEN "raise"
             ELSE IF po["Image"] # <<>> /\ "fulltext" \notin DOMAIN po["Image"][1]
                  THEN "raise"
             ELSE IF prune(build_monster(k, version, po)) THEN "skip_prune"
             ELSE "keep"

\* The record line 200 appends.
record_monster(k, v) ==
    vardorvis_override(build_monster(k, key_version(k), v.printouts))

(***************************************************************************)
(* Python dicts keep insertion order: a dict is a sequence of <<key,       *)
(* value>> items with distinct keys.                                       *)
(***************************************************************************)
dict_keys(d) == {d[i][1] : i \in 1..Len(d)}
dict_get(d, k) == d[CHOOSE i \in 1..Len(d) : d[i][1] = k][2]

\* d[k] = v: an existing key keeps its place and takes the new value.
dict_set(d, k, v) ==
    IF k \in dict_keys(d)
    THEN [i \in 1..Len(d) |-> IF d[i][1] = k THEN <<k, v>> ELSE d[i]]
    ELSE Append(d, <<k, v>>)

\* The existing key keeps its OLD value: the merge with its operands swapped.
RECURSIVE dict_union_keep_first(_, _)
dict_union_keep_first(a, b) ==
    IF b = <<>> THEN a
    ELSE dict_union_keep_first(
             IF b[1][1] \in dict_keys(a) THEN a ELSE Append(a, b[1]), Tail(b))

\* a | b (line 76): the items of b are set into a copy of a, in order.
RECURSIVE dict_union(_, _)
dict_union(a, b) ==
    IF b = <<>> THEN a
    ELSE dict_union(dict_set(a, b[1][1], b[1][2]), Tail(b))

(***************************************************************************)
(* What the wiki may answer.                                               *)
(***************************************************************************)
\* REQUIRED_PRINTOUTS (lines 22-54)
REQUIRED_PRINTOUTS ==
    MonsterPrintouts \cup
        {"Attack style", "Immune to poison", "Immune to venom", "Max hit",
         "Name", "Slayer category", "Slayer experience", "Category"}

\* limit=500 (line 65): the wiki continues at multiples of the page size.
PageSize == 500

Digits == <<"1", "2", "3", "4", "5", "6", "7", "8", "9">>
ImgName(i) == <<"I", "m", "g", Digits[i], ".", "p", "n", "g">>
ImgNames == {ImgName(i) : i \in 1..MaxImgs}

str_Monsters == <<"M", "o", "n", "s", "t", "e", "r", "s">>
page_entry(title) == [fulltext |-> title]

\* A well-formed printouts mapping of a monster that survives every test.
base_po ==
    [p \in REQUIRED_PRINTOUTS |->
        CASE p = "Hitpoints" -> <<JInt(10)>>
          [] p = "NPC ID" -> <<JInt(1)>>
          [] p = "Defence level" -> <<JInt(7)>>
          [] p = "Strength level" -> <<JInt(9)>>
          [] p = "Combat level" -> <<JInt(2), JInt(5)>>
          [] p = "Image" -> <<page_entry(str_File \o ImgName(1))>>
          [] p = "Category" -> <<page_entry(str_Category \o str_Monsters)>>
          [] OTHER -> <<>>]

without(po, p) == [q \in DOMAIN po \ {p} |-> po[q]]

\* Printouts that differ from base_po in one property.
po_variants ==
    {base_po,
     [base_po EXCEPT !["Hitpoints"] = <<>>],
     [base_po EXCEPT !["Hitpoints"] = <<JInt(0)>>],
     [base_po EXCEPT !["Hitpoints"] = <<JStr(<<"0">>)>>],
     [base_po EXCEPT !["NPC ID"] = <<>>],
     [base_po EXCEPT !["Defence level"] = <<>>, !["Strength level"] = <<JInt(0)>>],
     [base_po EXCEPT !["Image"] = <<>>],
     [base_po EXCEPT !["Image"] = <<page_entry(str_File \o ImgName(2))>>],
     [base_po EXCEPT !["Category"] = <<page_entry(str_Category \o str_scenery)>>],
     [base_po EXCEPT !["Category"] =
         <<page_entry(str_Category \o str_Monsters),
           page_entry(str_Category \o str_discontinued)>>],
     [base_po EXCEPT !["Category"] = <<[fullurl |-> <<>>]>>],
     [base_po EXCEPT !["Category"] =
         <<page_entry(str_Category \o str_discontinued), [fullurl |-> <<>>]>>],
     without(base_po, "Category"),
     without(base_po, "Size")}

raw_record(po) == [printouts |-> po]
no_printouts_record == [fulltext |-> <<>>]
raw_records == {raw_record(po) : po \in po_variants} \cup {no_printouts_record}

\* Keys: every string of at most MaxKeyLen characters over a small alphabet,
\* and the keys the tests of the loop body look for.
KeyAlphabet == {"a", "#"}
short_keys == UNION {[1..n -> KeyAlphabet] : n \in 0..MaxKeyLen}
str_Goblin == <<"G", "o", "b", "l", "i", "n">>
vardorvis_keys ==
    {str_Vardorvis,
     str_Vardorvis \o <<"#">> \o str_Post_Quest,
     str_Vardorvis \o <<"#">> \o str_Awakened,
     str_Vardorvis \o <<"#">> \o str_Quest,
     str_Vardorvis \o <<"#">> \o str_Quest \o <<"#", "a">>,
     <<"v">> \o Tail(str_Vardorvis) \o <<"#">> \o str_Quest}
named_keys ==
    {str_Goblin,
     <<"O", "l", "m", "#">> \o str_Challenge_Mode,
     <<"A", "#", "B", "#", "C">>,
     <<":">>,
     str_File \o str_Goblin,
     <<"_", "x", ":", "F", "o", "o">>,
     <<"T", "3", ":", "F", "o", "o">>,
     <<"Z", "u", "k", " ", "(", "P", "v", "M", " ", "A", "r", "e", "n", "a", ")">>,
     <<"O", "r", "k", " ">> \o str_historical \o <<"#", "1">>}
Keys == short_keys \cup vardorvis_keys \cup named_keys

\* The items the record loop is run on: every key with the well-formed
\* record, and every record under a plain key and under an overridden one.
raw_items ==
    {<<k, raw_record(base_po)>> : k \in Keys}
        \cup {<<str_Goblin, v>> : v \in raw_records}
        \cup {<<str_Vardorvis \o <<"#">> \o str_Awakened, raw_record(po)>> :
                 po \in {[base_po EXCEPT !["Defence level"] = <<>>,
                                         !["Strength level"] = <<JInt(0)>>],
                         [base_po EXCEPT !["NPC ID"] = <<>>]}}

\* A dict holds a key once.
distinct_keys(d) == \A i, j \in 1..Len(d) : d[i][1] = d[j][1] => i = j

\* The answers to one request of the fetch loop: requests.get raises
\* ("error"), r.json() raises ("bad_json"), or the body is a JSON object.
page_1 == <<<<str_Goblin, raw_record(base_po)>>>>
page_2 ==
    <<<<<<"I", "m", "p">>, no_printouts_record>>,
      <<str_Goblin,
        raw_record([base_po EXCEPT !["Image"] = <<page_entry(str_File \o ImgName(2))>>])>>>>
page_3 == <<<<<<"R", "a", "t">>, raw_record(without(base_po, "Category"))>>>>
pages == {page_1, page_2, page_3}

response(kind, query, results, has_offset, continue_offset) ==
    [kind |-> kind, query |-> query, results |-> results,
     has_offset |-> has_offset, continue_offset |-> continue_offset]
responses_universe ==
    {response("error", "absent", <<>>, FALSE, 0),
     response("bad_json", "absent", <<>>, FALSE, 0),
     response("json", "absent", <<>>, FALSE, 0),
     response("json", "no_results", <<>>, TRUE, PageSize)}
        \cup {response("json", "results", r, FALSE, 0) : r \in pages}
        \cup {response("json", "results", r, TRUE, n * PageSize) :
                 r \in pages, n \in 1..2}

HttpStatuses == {200, 404}

(***************************************************************************)
(* The state of one run of the script, and of the image cache directory.   *)
(***************************************************************************)
VARIABLES
    pc,               \* where main is: "fetch", "normalize", "images",
                      \* "img_write", "done", "raised", "killed"
    raised,           \* the exception that left main, "none" if none
    offset,           \* get_monster_data: offset
    monsters,         \* get_monster_data: monsters
    responses,        \* the requests made so far: <<offset sent, answer>>
    wiki_data,        \* main: wiki_data
    idx,              \* the number of items of wiki_data the loop has taken
    data,             \* main: data
    kept,             \* the keys of the items appended to data, in order
    required_imgs,    \* main: required_imgs, a list and then a set
    json_file,        \* FILE_NAME: whether this run wrote it, and its content
    todo,             \* the images the download loop has still to take
    cur,              \* the image whose file is open
    cache,            \* IMG_PATH: file name -> "complete" or "empty"
    cache0,           \* the files of IMG_PATH before the first run
    status,           \* the HTTP status the wiki answers for each image
    success_img_dls,
    failed_img_dls,
    skipped_img_dls,
    writes,           \* files opened for writing by the current run
    runs              \* how the earlier download runs ended

vars ==
    <<pc, raised, offset, monsters, responses, wiki_data, idx, data, kept,
      required_imgs, json_file, todo, cur, cache, cache0, status,
      success_img_dls, failed_img_dls, skipped_img_dls, writes, runs>>

fetch_vars == <<offset, monsters, responses>>
record_vars == <<idx, data, kept>>
image_vars ==
    <<todo, cur, cache, success_img_dls, failed_img_dls, skipped_img_dls,
      writes, runs>>
env_vars == <<cache0, status>>

(***************************************************************************)
(* get_monster_data (lines 57-83), one action per pass of its loop.        *)
(***************************************************************************)
\* Only a failed connection raises: an undecodable body passes as no data.
fetch_raises_connection_only(resp) == resp.kind = "error"

\* requests.get and r.json() (lines 67-70) raise, and nothing catches it.
fetch_raises(resp) == resp.kind \in {"error", "bad_json"}

\* line 72
no_results(resp) == resp.query # "results"

\* line 78
at_end(resp, off) == ~resp.has_offset \/ resp.continue_offset < off

Requested(resp) ==
    /\ pc = "fetch"
    /\ Len(responses) < MaxRequests
    /\ resp \in responses_universe
    /\ responses' = Append(responses, <<offset, resp>>)

\* The exception leaves get_monster_data and main (line 100, line 240).
FetchRaise ==
    \E resp \in responses_universe :
        /\ Requested(resp)
        /\ fetch_raises(resp)
        /\ pc' = "raised"
        /\ raised' = IF resp.kind = "error" THEN "ConnectionError"
                                            ELSE "JSONDecodeError"
        /\ UNCHANGED <<offset, monsters, wiki_data, record_vars, required_imgs,
                       json_file, image_vars, env_vars>>

\* lines 72-74, then line 83 and line 100
FetchNoResults ==
    \E resp \in responses_universe :
        /\ Requested(resp)
        /\ ~fetch_raises(resp)
        /\ no_results(resp)
        /\ wiki_data' = monsters
        /\ pc' = "normalize"
        /\ UNCHANGED <<raised, offset, monsters, record_vars, required_imgs,
                       json_file, image_vars, env_vars>>

\* lines 76-80, then line 83 and line 100
FetchLastPage ==
    \E resp \in responses_universe :
        /\ Requested(resp)
        /\ ~fetch_raises(resp)
        /\ ~no_results(resp)
        /\ at_end(resp, offset)
        /\ monsters' = dict_union(monsters, resp.results)
        /\ wiki_data' = monsters'
        /\ pc' = "normalize"
        /\ UNCHANGED <<raised, offset, record_vars, required_imgs,
                       json_file, image_vars, env_vars>>

\* lines 76-82
FetchNextPage ==
    \E resp \in responses_universe :
        /\ Requested(resp)
        /\ ~fetch_raises(resp)
        /\ ~no_results(resp)
        /\ ~at_end(resp, offset)
        /\ monsters' = dict_union(monsters, resp.results)
        /\ offset' = resp.continue_offset
        /\ UNCHANGED <<pc, raised, wiki_data, record_vars, required_imgs,
                       json_file, image_vars, env_vars>>

(***************************************************************************)
(* The record loop of main (lines 107-202), one action per item.           *)
(***************************************************************************)
AtItem ==
    /\ pc = "normalize"
    /\ idx < Len(wiki_data)

NormSkip ==
    /\ AtItem
    /\ record_outcome(wiki_data[idx + 1][1], wiki_data[idx + 1][2])
           \notin {"keep", "raise"}
    /\ idx' = idx + 1
    /\ UNCHANGED <<pc, raised, fetch_vars, wiki_data, data, kept, required_imgs,
                   json_file, image_vars, env_vars>>

\* lines 200-202
NormKeep ==
    /\ AtItem
    /\ LET k == wiki_data[idx + 1][1]
           v == wiki_data[idx + 1][2]
           monster == record_monster(k, v)
       IN  /\ record_outcome(k, v) = "keep"
           /\ data' = Append(data, monster)
           /\ kept' = Append(kept, k)
           /\ required_imgs' = IF monster.image # <<>>
                               THEN Append(required_imgs, monster.image)
                               ELSE required_imgs
    /\ idx' = idx + 1
    /\ UNCHANGED <<pc, raised, fetch_vars, wiki_data, json_file, image_vars,
                   env_vars>>

\* A KeyError of po[...] or c['fulltext'] leaves the loop and main.
NormRaise ==
    /\ AtItem
    /\ record_outcome(wiki_data[idx + 1][1], wiki_data[idx + 1][2]) = "raise"
    /\ pc' = "raised"
    /\ raised' = "KeyError"
    /\ UNCHANGED <<fetch_vars, wiki_data, record_vars, required_imgs, json_file,
                   image_vars, env_vars>>

\* The loop is over: lines 204-214.
SaveJson ==
    /\ pc = "normalize"
    /\ idx = Len(wiki_data)
    /\ json_file' = [written |-> TRUE, content |-> data]
    /\ success_img_dls' = 0
    /\ failed_img_dls' = 0
    /\ skipped_img_dls' = 0
    /\ required_imgs' = Range(required_imgs)
    /\ todo' = Range(required_imgs)
    /\ pc' = "images"
    /\ UNCHANGED <<raised, fetch_vars, wiki_data, record_vars, cur, cache,
                   writes, runs, env_vars>>

(***************************************************************************)
(* The download loop of main (lines 217-233).                              *)
(***************************************************************************)
\* The existence test never finds the file.
isfile_never(files, img) == FALSE

\* os.path.isfile(IMG_PATH + img) (line 218)
isfile(files, img) == img \in DOMAIN files

put_file(files, img, content) ==
    [n \in DOMAIN files \cup {img} |-> IF n = img THEN content ELSE files[n]]

\* lines 218-220
ImgSkip ==
    /\ pc = "images"
    /\ \E img \in todo :
        /\ isfile(cache, img)
        /\ skipped_img_dls' = skipped_img_dls + 1
        /\ todo' = todo \ {img}
    /\ UNCHANGED <<pc, raised, fetch_vars, wiki_data, record_vars, required_imgs,
                   json_file, cur, cache, success_img_dls, failed_img_dls,
                   writes, runs, env_vars>>

\* lines 223-226 and 231-233: any status but 200
ImgFetchFail ==
    /\ pc = "images"
    /\ \E img \in todo :
        /\ ~isfile(cache, img)
        /\ status[img] # 200
        /\ failed_img_dls' = failed_img_dls + 1
        /\ todo' = todo \ {img}
    /\ UNCHANGED <<pc, raised, fetch_vars, wiki_data, record_vars, required_imgs,
                   json_file, cur, cache, success_img_dls, skipped_img_dls,
                   writes, runs, env_vars>>

\* lines 223-227: status 200, and open(..., 'wb') creates the file, empty
ImgFetchOk ==
    /\ pc = "images"
    /\ \E img \in todo :
        /\ ~isfile(cache, img)
        /\ status[img] = 200
        /\ cache' = put_file(cache, img, "empty")
        /\ cur' = img
        /\ todo' = todo \ {img}
    /\ writes' = writes + 1
    /\ pc' = "img_write"
    /\ UNCHANGED <<raised, fetch_vars, wiki_data, record_vars, required_imgs,
                   json_file, success_img_dls, failed_img_dls, skipped_img_dls,
                   runs, env_vars>>

\* lines 228-230, and the close at the end of the with block
ImgWrite ==
    /\ pc = "img_write"
    /\ cache' = put_file(cache, cur, "complete")
    /\ success_img_dls' = success_img_dls + 1
    /\ pc' = "images"
    /\ UNCHANGED <<raised, fetch_vars, wiki_data, record_vars, required_imgs,
                   json_file, todo, cur, failed_img_dls, skipped_img_dls,
                   writes, runs, env_vars>>

\* The loop is over: lines 235-237, and main returns.
ImgDone ==
    /\ pc = "images"
    /\ todo = {}
    /\ pc' = "done"
    /\ runs' = Append(runs, "done")
    /\ UNCHANGED <<raised, fetch_vars, wiki_data, record_vars, required_imgs,
                   json_file, todo, cur, cache, success_img_dls, failed_img_dls,
                   skipped_img_dls, writes, env_vars>>

\* The process is terminated during the download loop.
Terminate ==
    /\ pc \in {"images", "img_write"}
    /\ pc' = "killed"
    /\ runs' = Append(runs, "killed")
    /\ UNCHANGED <<raised, fetch_vars, wiki_data, record_vars, required_imgs,
                   json_file, todo, cur, cache, success_img_dls, failed_img_dls,
                   skipped_img_dls, writes, env_vars>>

\* The download loop is run again on the same required images: lines
\* 211-214 of a later run, over the cache directory the earlier ones left.
Rerun ==
    /\ pc \in {"done", "killed"}
    /\ Len(runs) < MaxRuns
    /\ success_img_dls' = 0
    /\ failed_img_dls' = 0
    /\ skipped_img_dls' = 0
    /\ writes' = 0
    /\ todo' = required_imgs
    /\ pc' = "images"
    /\ UNCHANGED <<raised, fetch_vars, wiki_data, record_vars, required_imgs,
                   json_file, cur, cache, runs, env_vars>>

(***************************************************************************)
(* Specifications.                                                         *)
(***************************************************************************)
InitCommon ==
    /\ raised = "none"
    /\ offset = 0
    /\ responses = <<>>
    /\ idx = 0
    /\ data = <<>>
    /\ kept = <<>>
    /\ cur = <<>>
    /\ success_img_dls = 0
    /\ failed_img_dls = 0
    /\ skipped_img_dls = 0
    /\ writes = 0
    /\ runs = <<>>

\* One run of the whole script, from the call of main.
Init ==
    /\ InitCommon
    /\ pc = "fetch"
    /\ monsters = <<>>
    /\ wiki_data = <<>>
    /\ required_imgs = <<>>
    /\ json_file = [written |-> FALSE, content |-> <<>>]
    /\ todo = {}
    /\ cache0 \in SUBSET ImgNames
    /\ cache = [n \in cache0 |-> "complete"]
    /\ status \in [ImgNames -> HttpStatuses]

Next ==
    \/ FetchRaise
    \/ FetchNoResults
    \/ FetchLastPage
    \/ FetchNextPage
    \/ NormSkip
    \/ NormKeep
    \/ NormRaise
    \/ SaveJson
    \/ ImgSkip
    \/ ImgFetchFail
    \/ ImgFetchOk
    \/ ImgWrite
    \/ ImgDone

Spec == Init /\ [][Next]_vars

\* The record loop and the save, on every mapping get_monster_data may return.
InitNorm ==
    /\ InitCommon
    /\ pc = "normalize"
    /\ \E n \in 0..MaxRecords : wiki_data \in [1..n -> raw_items]
    /\ distinct_keys(wiki_data)
    /\ monsters = <<>>
    /\ required_imgs = <<>>
    /\ json_file = [written |-> FALSE, content |-> <<>>]
    /\ todo = {}
    /\ cache0 = {}
    /\ cache = <<>>
    /\ status = [n \in ImgNames |-> 200]

NextNorm ==
    \/ NormSkip
    \/ NormKeep
    \/ NormRaise
    \/ SaveJson

SpecNorm == InitNorm /\ [][NextNorm]_vars

\* The download loop, run up to MaxRuns times over one cache directory, on
\* every set of required images, and terminated at any point.
InitImg ==
    /\ InitCommon
    /\ pc = "images"
    /\ monsters = <<>>
    /\ wiki_data = <<>>
    /\ json_file = [written |-> TRUE, content |-> <<>>]
    /\ required_imgs \in SUBSET ImgNames
    /\ todo = required_imgs
    /\ cache0 \in SUBSET ImgNames
    /\ cache = [n \in cache0 |-> "complete"]
    /\ status \in [ImgNames -> HttpStatuses]

NextImg ==
    \/ ImgSkip
    \/ ImgFetchFail
    \/ ImgFetchOk
    \/ ImgWrite
    \/ ImgDone
    \/ Terminate
    \/ Rerun

SpecImg == InitImg /\ [][NextImg]_vars

(***************************************************************************)
(* Properties.                                                             *)
(***************************************************************************)
LastResponse == responses[Len(responses)]
FetchFailed == raised \in {"ConnectionError", "JSONDecodeError"}
\* get_monster_data has returned
Fetched == pc # "fetch" /\ ~FetchFailed

\* C1: the fetch loop ends after any answer that carries no continuation
\* offset or one that is not strictly greater than the offset that was sent;
\* with every answer continuing at 500 it ends after exactly two requests.
C1_LoopTerminates ==
    responses # <<>> =>
        LET sent == LastResponse[1]
            resp == LastResponse[2]
        IN  (~resp.has_offset \/ resp.continue_offset <= sent) => pc # "fetch"

ResultPages == {i \in 1..Len(responses) : responses[i][2].kind = "json"
                                           /\ responses[i][2].query = "results"}
PagesWith(k) == {i \in ResultPages : k \in dict_keys(responses[i][2].results)}
Max(S) == CHOOSE x \in S : \A y \in S : y <= x
Min(S) == CHOOSE x \in S : \A y \in S : x <= y

\* C10: what get_monster_data returns holds exactly the keys of the result
\* pages received, each once and with the value of the last page that has
\* it, in the order the keys first came; and an answer without query.results
\* ends the loop with a return, never with an exception.
C10_ReturnsMerge ==
    /\ Fetched =>
        /\ \A i, j \in 1..Len(wiki_data) :
               wiki_data[i][1] = wiki_data[j][1] => i = j
        /\ dict_keys(wiki_data) =
               UNION {dict_keys(responses[i][2].results) : i \in ResultPages}
        /\ \A k \in dict_keys(wiki_data) :
               dict_get(wiki_data, k) =
                   dict_get(responses[Max(PagesWith(k))][2].results, k)
        /\ \A i, j \in 1..Len(wiki_data) :
               i < j => Min(PagesWith(wiki_data[i][1]))
                            <= Min(PagesWith(wiki_data[j][1]))
    /\ (responses # <<>> /\ LastResponse[2].kind = "json"
                         /\ LastResponse[2].query # "results") => Fetched

\* C10's case: two pages received hold the same key with different values.
C10_Witness ==
    /\ Fetched
    /\ \E i, j \in ResultPages :
        /\ i < j
        /\ \E k \in dict_keys(responses[i][2].results) :
            /\ k \in dict_keys(responses[j][2].results)
            /\ dict_get(responses[i][2].results, k)
                   # dict_get(responses[j][2].results, k)

\* C8: once a request has failed (no connection, or a body that is no JSON)
\* the run is over with the exception: the JSON file is not written, no
\* record has been handled, no image requested and no file touched.
C8_FetchFailureAborts ==
    (\E i \in 1..Len(responses) : responses[i][2].kind \in {"error", "bad_json"}) =>
        /\ pc = "raised"
        /\ ~json_file.written
        /\ idx = 0
        /\ data = <<>>
        /\ success_img_dls + failed_img_dls + skipped_img_dls + writes = 0
        /\ cache = [n \in cache0 |-> "complete"]

\* C8's case: pages were fetched, and then a body could not be decoded.
C8_Witness ==
    /\ Len(responses) >= 2
    /\ LastResponse[2].kind = "bad_json"
    /\ monsters # <<>>
    /\ pc = "raised"

HandledItems == {wiki_data[i] : i \in 1..idx}
Kept(k) == \E j \in 1..Len(kept) : kept[j] = k

\* C3: a record whose Hitpoints printout is [] or ["0"] is not in the output.
C3_NoHitpointsExcluded ==
    \A it \in HandledItems :
        ("printouts" \in DOMAIN it[2]
            /\ "Hitpoints" \in DOMAIN it[2].printouts
            /\ it[2].printouts["Hitpoints"] \in {<<>>, <<JStr(<<"0">>)>>})
        => ~Kept(it[1])

\* ^[A-Za-z]+: , the namespace pattern as the specification states it
alpha_prefix(k) ==
    LET c == FirstIndex(k, ":")
    IN  c > 1 /\ \A j \in 1..(c - 1) : k[j] \in Range(UpperChars) \cup Range(LowerChars)

all_printouts_well_formed(v) ==
    "printouts" \in DOMAIN v =>
        /\ REQUIRED_PRINTOUTS \subseteq DOMAIN v.printouts
        /\ \A p \in {"Category", "Image"} :
               \A i \in 1..Len(v.printouts[p]) :
                   "fulltext" \in DOMAIN v.printouts[p][i]

stated_skip_condition(k, v) ==
    \/ "printouts" \notin DOMAIN v
    \/ Contains(key_version(k), str_Challenge_Mode)
    \/ alpha_prefix(k)
    \/ \E i \in 1..Len(v.printouts["Category"]) :
           v.printouts["Category"][i].fulltext
               \in {str_Category \o str_scenery, str_Category \o str_discontinued}
    \/ eq_0(or_0(get_printout_value(v.printouts["Hitpoints"])))
    \/ v.printouts["NPC ID"] = <<>>
    \/ \E sub \in {str_historical, str_pvm_arena, str_deadman} :
           Contains(str_lower(key_name(k)), sub)

\* C4: a record with every printout in place is appended, once, exactly when
\* none of the stated skip conditions holds; the namespace condition is the
\* pattern ^[A-Za-z]+: on the key.
C4_KeptIffNoSkipCondition ==
    /\ \A i, j \in 1..Len(kept) : kept[i] = kept[j] => i = j
    /\ \A it \in HandledItems :
           all_printouts_well_formed(it[2]) =>
               (Kept(it[1]) <=> ~stated_skip_condition(it[1], it[2]))

\* C9: of every record in the output, version is what follows the first '#'
\* of the key, and name is what precedes it and so holds no '#'.
C9_SplitOnFirstHash ==
    \A j \in 1..Len(data) :
        LET k == kept[j]
            h == FirstIndex(k, "#")
        IN  /\ data[j].version = (IF h = 0 THEN <<>> ELSE SubSeq(k, h + 1, Len(k)))
            /\ data[j].name = (IF h = 0 THEN k ELSE SubSeq(k, 1, h - 1))
            /\ "#" \notin Range(data[j].name)

\* C6: no record makes the loop raise: every item is kept or skipped and the
\* run goes on to write the JSON file.
C6_RecordsNeverAbort == pc # "raised" /\ raised = "none"

overridden(m) ==
    m.name = str_Vardorvis /\ m.version \in {str_Post_Quest, str_Awakened, str_Quest}

\* C5: an output record named "Vardorvis" has defence and strength 215/270
\* for version "Post-Quest", 268/391 for "Awakened" and 180/210 for "Quest",
\* whatever the printouts say; every other value of it, and every value of
\* a record with another name or version, is the one taken from the printouts.
C5_VardorvisOverride ==
    \A j \in 1..Len(data) :
        LET m == data[j]
            k == kept[j]
            x == build_monster(k, key_version(k), dict_get(wiki_data, k).printouts)
        IN  /\ (m.name = str_Vardorvis /\ m.version = str_Post_Quest)
                   => (m.skills[2] = JInt(215) /\ m.skills[6] = JInt(270))
            /\ (m.name = str_Vardorvis /\ m.version = str_Awakened)
                   => (m.skills[2] = JInt(268) /\ m.skills[6] = JInt(391))
            /\ (m.name = str_Vardorvis /\ m.version = str_Quest)
                   => (m.skills[2] = JInt(180) /\ m.skills[6] = JInt(210))
            /\ ~overridden(m) => m = x
            /\ [m EXCEPT !.skills = x.skills] = x
            /\ \A i \in {1, 3, 4, 5} : m.skills[i] = x.skills[i]

\* C5's case: "Vardorvis#Awakened" is in the output with defence 268 though
\* its Defence level printout says 7.
C5_Witness ==
    \E j \in 1..Len(data) :
        /\ kept[j] = str_Vardorvis \o <<"#">> \o str_Awakened
        /\ data[j].skills[2] = JInt(268)
        /\ dict_get(wiki_data, kept[j]).printouts["Defence level"] = <<JInt(7)>>

FollowsCompleteRun ==
    /\ pc = "done"
    /\ Len(runs) >= 2
    /\ runs[Len(runs) - 1] = "done"

\* C2 as stated: a download run that follows a complete one writes no file
\* and skips every required image.
C2_SecondRunSkipsAll ==
    FollowsCompleteRun =>
        /\ writes = 0
        /\ skipped_img_dls = Cardinality(required_imgs)

\* C2, amended: a download run that follows a complete one writes no file,
\* skips the required images that were cached at the start or are answered
\* with status 200, and fails on every other one again.
C2_SecondRunWritesNothing ==
    FollowsCompleteRun =>
        /\ writes = 0
        /\ success_img_dls = 0
        /\ skipped_img_dls =
               Cardinality({n \in required_imgs : n \in cache0 \/ status[n] = 200})
        /\ failed_img_dls =
               Cardinality({n \in required_imgs : n \notin cache0 /\ status[n] # 200})

\* C2's case: the first run downloaded an image and failed on another one.
C2_Witness ==
    /\ FollowsCompleteRun
    /\ runs = <<"done", "done">>
    /\ DOMAIN cache # cache0
    /\ failed_img_dls > 0

\* C7: wherever the process is terminated, every file of the cache
\* directory holds a complete body, and no file that was there is changed.
C7_FilesAtomic ==
    /\ pc = "killed" => \A n \in DOMAIN cache : cache[n] = "complete"
    /\ \A n \in cache0 : n \in DOMAIN cache /\ cache[n] = "complete"

====
